---- MODULE Spec2Model ----
(***************************************************************************)
(* Model of the gauge-creator pipeline: parse_tcx_file (speed derivation), *)
(* slice_data_and_save_json, create_gauge_video (resampling, frame loop,   *)
(* caches, video sink) and orchestrate_video_generation (progress, cleanup *)
(* of the transient sliced-data file).                                     *)
(*                                                                         *)
(* Time is counted in ticks of 1/TicksPerSecond second.  Interpolated      *)
(* values are exact rationals (numerator over a common denominator);       *)
(* binary floating-point rounding inside numpy is not modelled.            *)
(***************************************************************************)
EXTENDS Integers, Sequences, FiniteSets, TLC

VARIABLES
    tcx_data,      \* the trackpoint list handed to the slicer / orchestrator
    start_time,    \* requested window start (a datetime)
    end_time,      \* requested window end (a datetime)
    sliceRes,      \* outcome of the first slicer call
    resliceRes,    \* outcome of the slicer applied to the first call's output
    spc,           \* position of the slicing scenario
    raw,           \* the Trackpoint nodes of the TCX file, as extracted texts
    parsed,        \* what parse_tcx_file returned or raised
    ppc,           \* position of the parsing scenario
    trackpoints,   \* create_gauge_video: the list json.load returned
    interpolated_data, \* create_gauge_video: the per-frame values
    rpc,           \* position of the resampling scenario
    pc,            \* orchestrate_video_generation / create_gauge_video: next step
    exc,           \* the exception propagating out of the try block, or None
    result,        \* "requested", "running", then "returned" or "raised"; "rejected"
    tempFile,      \* the file at temp_json_path: None when absent, else its content
    progress,      \* the percentages delivered to the caller's progress_callback
    sink,          \* the cv2.VideoWriter: "none", "open" or "released"
    written,       \* the frames passed to out.write, in order
    frame_i,       \* the frame loop's index i
    total_frames,  \* create_gauge_video.total_frames
    text_cache,    \* the strings that have a rendered text image
    base_frame_cache, \* cache_key -> stored base raster
    rendered,      \* the cache keys rendered from scratch, in order
    runs,          \* concurrent scenario: per worker, the state of its run
    fs             \* concurrent scenario: the working directory, path -> file

sliceVars == <<tcx_data, start_time, end_time, sliceRes, resliceRes, spc>>
parseVars == <<raw, parsed, ppc>>
resVars == <<trackpoints, interpolated_data, rpc>>
pipeVars == <<pc, exc, result, tempFile, progress, sink, written, frame_i, total_frames,
              text_cache, base_frame_cache, rendered>>
vars == <<tcx_data, start_time, end_time, sliceRes, resliceRes, spc, raw, parsed, ppc,
          trackpoints, interpolated_data, rpc,
          pc, exc, result, tempFile, progress, sink, written, frame_i, total_frames,
          text_cache, base_frame_cache, rendered, runs, fs>>

concVars == <<runs, fs>>
ConcIdle == runs = <<>> /\ fs = <<>>

\* ---------------------------------------------------------------- bounds
MaxSlicePoints == 3
MaxSliceTick == 2
MaxParsePoints == 3
MaxParseTick == 2
MaxDistance == 2
MaxResPoints == 3
MaxResTick == 14
MaxResPower == 2

\* All sequences over S of length at most n.
RECURSIVE SeqsUpTo(_, _)
SeqsUpTo(S, n) ==
    IF n = 0 THEN {<<>>}
    ELSE LET shorter == SeqsUpTo(S, n - 1)
         IN shorter \cup {Append(s, x) : s \in {q \in shorter : Len(q) = n - 1}, x \in S}

\* ------------------------------------------------------------- datetimes
\* Resolution of the modelled timestamps: total_seconds() = ticks / TicksPerSecond.
TicksPerSecond == 100

\* UTC offset of the machine's local zone, used by astimezone() on a naive value.
LocalUtcOffset == 2 * 3600 * TicksPerSecond

\* A non-UTC offset a zone-aware window endpoint may arrive in.
OtherUtcOffset == (0 - 5) * 3600 * TicksPerSecond

None == [none |-> TRUE]

\* A present optional text/number (an absent one is None).
Some(v) == [val |-> v]

\* Each scenario leaves the variables of the others at rest.
ParseIdle == raw = None /\ parsed = None /\ ppc = "idle"

SliceIdle ==
    /\ tcx_data = <<>>
    /\ start_time = None
    /\ end_time = None
    /\ sliceRes = None
    /\ resliceRes = None
    /\ spc = "idle"

ResIdle == trackpoints = <<>> /\ interpolated_data = <<>> /\ rpc = "idle"

PipeIdle ==
    /\ pc = "idle"
    /\ exc = None
    /\ result = "idle"
    /\ tempFile = None
    /\ progress = <<>>
    /\ sink = "none"
    /\ written = <<>>
    /\ frame_i = 0
    /\ total_frames = 0
    /\ text_cache = {}
    /\ base_frame_cache = <<>>
    /\ rendered = <<>>

\* A datetime: wall-clock ticks, and tzinfo (aware with an offset, or naive).
DateTime(wall, aware, off) == [wall |-> wall, aware |-> aware, off |-> off]

UtcTime(t) == DateTime(t, TRUE, 0)

IsStr(x) == "iso" \in DOMAIN x

\* datetime.astimezone(timezone.utc) for an aware value; for a naive value
\* astimezone() first attaches the local zone.
astimezone_utc(dt) ==
    IF dt.aware THEN UtcTime(dt.wall - dt.off)
    ELSE UtcTime(dt.wall - LocalUtcOffset)

\* datetime.astimezone(None) of an aware value: the same instant, local zone.
astimezone_local(dt) == DateTime(dt.wall - dt.off + LocalUtcOffset, TRUE, LocalUtcOffset)

\* datetime.isoformat(): a text carrying the wall clock and the offset.
isoformat(dt) == [iso |-> <<dt.wall, dt.off>>]

\* datetime.fromisoformat() of such a text.
fromisoformat(s) == DateTime(s.iso[1], TRUE, s.iso[2])

\* Instant of an aware datetime, the quantity aware datetimes compare by.
Instant(dt) == dt.wall - dt.off

\* a <= b on datetimes; comparing a datetime with a str raises TypeError.
CanCompare(a, b) == ~IsStr(a) /\ ~IsStr(b)
DtLessEq(a, b) == Instant(a) <= Instant(b)

\* ------------------------------------------------------------------ slicer
\* Window endpoint normalisation of slice_data_and_save_json.
start_time_utc(st) == astimezone_utc(st)
end_time_utc(et) == astimezone_utc(et)

\* The chained comparison  start_time_utc <= tp['time'] <= end_time_utc.
InWindowStrict(tp, st, et) ==
    /\ DtLessEq(start_time_utc(st), tp.time)
    /\ Instant(tp.time) < Instant(end_time_utc(et))

\* A window test that forgets the upper bound.
InWindowNoUpper(tp, st, et) == DtLessEq(start_time_utc(st), tp.time)

InWindow(tp, st, et) ==
    /\ DtLessEq(start_time_utc(st), tp.time)
    /\ DtLessEq(tp.time, end_time_utc(et))

\* The for-loop building sliced_data; "TypeError" when a point's time is a str.
RECURSIVE SliceLoop(_, _, _, _, _)
SliceLoop(tps, st, et, i, acc) ==
    IF i > Len(tps) THEN [ok |-> TRUE, data |-> acc]
    ELSE IF ~CanCompare(start_time_utc(st), tps[i].time)
         THEN [ok |-> FALSE, error |-> "TypeError"]
         ELSE IF InWindow(tps[i], st, et)
              THEN SliceLoop(tps, st, et, i + 1,
                             Append(acc, [tps[i] EXCEPT !.time = isoformat(tps[i].time)]))
              ELSE SliceLoop(tps, st, et, i + 1, acc)

\* slice_data_and_save_json: the list json.dump writes, or the exception raised.
slice_data_and_save_json(tps, st, et) == SliceLoop(tps, st, et, 1, <<>>)

\* ------------------------------------------------------------ parse_tcx_file
\* A speed in metres per second, kept as an exact fraction num/den (den > 0).
Fraction(num, den) == [num |-> num, den |-> den]
ZeroSpeed == Fraction(0, 1)

\* The two strptime attempts: a time text in either accepted format parses to
\* its UTC instant; any other text parses in neither.
TimeParses(time_str) == time_str.fmt \in {"fraction", "plain"}

\* The trackpoint dict appended for one node (speed is filled in afterwards).
NewTrackpoint(node) ==
    [time     |-> UtcTime(node.time_str.ticks),
     power    |-> IF node.power_str = None THEN 0 ELSE node.power_str.val,
     hr       |-> 0,
     cadence  |-> 0,
     distance |-> node.dist_str,
     speed    |-> None]

\* The loop over all_tp_nodes: nodes without a Time or with an unparsable one
\* are skipped.
RECURSIVE CollectTrackpoints(_, _, _)
CollectTrackpoints(nodes, i, acc) ==
    IF i > Len(nodes) THEN acc
    ELSE IF nodes[i].time_str = None \/ ~TimeParses(nodes[i].time_str)
         THEN CollectTrackpoints(nodes, i + 1, acc)
         ELSE CollectTrackpoints(nodes, i + 1, Append(acc, NewTrackpoint(nodes[i])))

\* Speed of trackpoint i given the (already processed) list so far.
SpeedAt(tps, i) ==
    IF i > 1 /\ tps[i].distance # None /\ tps[i - 1].distance # None
    THEN LET dist_delta == tps[i].distance.val - tps[i - 1].distance.val
             time_delta == Instant(tps[i].time) - Instant(tps[i - 1].time)
         IN IF time_delta > 0
            THEN Fraction(dist_delta * TicksPerSecond, time_delta)
            ELSE IF tps[i - 1].speed = None THEN ZeroSpeed ELSE tps[i - 1].speed
    ELSE ZeroSpeed

\* The forward pass  for i in range(len(trackpoints))  assigning 'speed'.
RECURSIVE SpeedLoop(_, _)
SpeedLoop(tps, i) ==
    IF i > Len(tps) THEN tps
    ELSE SpeedLoop([tps EXCEPT ![i].speed = SpeedAt(tps, i)], i + 1)

\* parse_tcx_file on the extracted nodes: the returned dict or the ValueError.
parse_tcx_file(nodes) ==
    IF nodes = <<>>
    THEN [ok |-> FALSE, error |-> "ValueError: no Trackpoint data"]
    ELSE LET collected == CollectTrackpoints(nodes, 1, <<>>)
         IN IF collected = <<>>
            THEN [ok |-> FALSE, error |-> "ValueError: no valid trackpoints"]
            ELSE LET built == SpeedLoop(collected, 1)
                 IN [ok          |-> TRUE,
                     start_time  |-> astimezone_local(built[1].time),
                     end_time    |-> astimezone_local(built[Len(built)].time),
                     trackpoints |-> built]

\* --------------------------------------------------- parsing scenario (SpecParse)
TimeText == [fmt : {"fraction"}, ticks : 0..MaxParseTick]
               \cup [fmt : {"plain"}, ticks : {0}]
               \cup [fmt : {"bad"}, ticks : {0}]

TrackpointNode ==
    [time_str  : TimeText \cup {None},
     power_str : {None},
     dist_str  : {Some(d) : d \in 0..MaxDistance} \cup {None}]

InitParse ==
    /\ raw \in SeqsUpTo(TrackpointNode, MaxParsePoints)
    /\ parsed = None
    /\ ppc = "parse"
    /\ SliceIdle
    /\ ResIdle
    /\ PipeIdle
    /\ ConcIdle

\* One call of parse_tcx_file that returns.
ParseReturns ==
    /\ ppc = "parse"
    /\ parse_tcx_file(raw).ok
    /\ parsed' = parse_tcx_file(raw)
    /\ ppc' = "returned"
    /\ UNCHANGED raw
    /\ UNCHANGED sliceVars
    /\ UNCHANGED resVars
    /\ UNCHANGED <<pipeVars, concVars>>

\* One call of parse_tcx_file that raises ValueError.
ParseRaises ==
    /\ ppc = "parse"
    /\ ~parse_tcx_file(raw).ok
    /\ parsed' = parse_tcx_file(raw)
    /\ ppc' = "raised"
    /\ UNCHANGED raw
    /\ UNCHANGED sliceVars
    /\ UNCHANGED resVars
    /\ UNCHANGED <<pipeVars, concVars>>

NextParse == ParseReturns \/ ParseRaises

SpecParse == InitParse /\ [][NextParse]_vars

\* --------------------------------------------------------- claims on parsing
SpeedEq(a, b) == a.num * b.den = b.num * a.den

\* C9: in the series parse_tcx_file builds, the first point's speed is 0; for
\* i > 0 the speed is (distance[i]-distance[i-1])/(time[i]-time[i-1]) when both
\* distances are known and the time delta is positive, and in every other case
\* it equals the previous point's speed.
C9_SpeedDerivedOrInherited ==
    ppc = "returned" =>
        LET tps == parsed.trackpoints
        IN /\ SpeedEq(tps[1].speed, ZeroSpeed)
           /\ \A i \in 2..Len(tps) :
                 LET known == tps[i].distance # None /\ tps[i - 1].distance # None
                     dt == Instant(tps[i].time) - Instant(tps[i - 1].time)
                 IN IF known /\ dt > 0
                    THEN SpeedEq(tps[i].speed,
                                 Fraction((tps[i].distance.val - tps[i - 1].distance.val)
                                              * TicksPerSecond, dt))
                    ELSE SpeedEq(tps[i].speed, tps[i - 1].speed)

\* Python's round() of the non-negative fraction num/den: nearest integer, a tie
\* going to the even neighbour.
round_half_even(num, den) ==
    LET fl == num \div den
        twice == 2 * (num % den)
    IN IF twice < den THEN fl
       ELSE IF twice > den THEN fl + 1
       ELSE IF fl % 2 = 0 THEN fl ELSE fl + 1

\* --------------------------------------- create_gauge_video: resampling (part 3)
VIDEO_FPS == 30
BODY_WEIGHT_KG == 65

\* duration_seconds, in ticks: (end_dt - start_dt) of the first and last point.
duration_ticks(tps) ==
    Instant(fromisoformat(tps[Len(tps)].time)) - Instant(fromisoformat(tps[1].time))

\* num_interpolated = int(duration_seconds * VIDEO_FPS) if duration_seconds > 0 else 1
num_interpolated(tps) ==
    IF duration_ticks(tps) > 0
    THEN (duration_ticks(tps) * VIDEO_FPS) \div TicksPerSecond
    ELSE 1

\* The denominator np.linspace(..., endpoint=False) would use: positions j*(n-1)/m.
linspace_den_noendpoint(m) == m

\* Common denominator of np.linspace(0, n - 1, m): positions are j*(n-1)/(m-1).
linspace_den(m) == IF m > 1 THEN m - 1 ELSE 1

\* np.interp of values (given at 0..n-1) at linspace position j (0-based) of m.
interp(values, j, m) ==
    LET n == Len(values)
        den == linspace_den(m)
        pos == j * (n - 1)
        k == pos \div den
        r == pos % den
    IN IF k >= n - 1
       THEN Fraction(values[n] * den, den)
       ELSE Fraction(values[k + 1] * den + (values[k + 2] - values[k + 1]) * r, den)

\* interpolated_data: one entry per frame, frame j+1 of the list is index j.
Interpolate(tps) ==
    LET power == [q \in 1..Len(tps) |-> tps[q].power]
        hr == [q \in 1..Len(tps) |-> tps[q].hr]
        m == num_interpolated(tps)
    IN [j \in 1..m |->
          LET p == interp(power, j - 1, m)
          IN [power    |-> p,
              hr       |-> interp(hr, j - 1, m),
              w_per_kg |-> IF BODY_WEIGHT_KG > 0
                           THEN Fraction(p.num, p.den * BODY_WEIGHT_KG)
                           ELSE ZeroSpeed]]

\* ---------------------------------------------- resampling scenario (SpecResample)
\* A loaded JSON point: time as ISO text, integer power and hr.
JsonPoint(t, p, h) == [time |-> isoformat(UtcTime(t)), power |-> p, hr |-> h]

\* A non-empty sliced series with the given powers; only its first and last
\* timestamps matter to the resampler, the inner points sit at the first one.
ResSeries(powers, first, last) ==
    [q \in 1..Len(powers) |->
        JsonPoint(IF q = Len(powers) /\ q > 1 THEN last ELSE first, powers[q], 60 + powers[q])]

InitResample ==
    /\ \E powers \in SeqsUpTo(0..MaxResPower, MaxResPoints) \ {<<>>},
          first \in {0, 1}, last \in 0..MaxResTick :
          trackpoints = ResSeries(powers, first, last)
    /\ interpolated_data = <<>>
    /\ rpc = "loaded"
    /\ SliceIdle
    /\ ParseIdle
    /\ PipeIdle
    /\ ConcIdle

\* Lines 98-108 of create_gauge_video on a non-empty list.
Resample ==
    /\ rpc = "loaded"
    /\ interpolated_data' = Interpolate(trackpoints)
    /\ rpc' = "resampled"
    /\ UNCHANGED trackpoints
    /\ UNCHANGED sliceVars
    /\ UNCHANGED parseVars
    /\ UNCHANGED <<pipeVars, concVars>>

NextResample == Resample

SpecResample == InitResample /\ [][NextResample]_vars

\* ------------------------------------------------------ claims on resampling
MaxOf(a, b) == IF a >= b THEN a ELSE b

\* duration = time[last] - time[first] of the loaded series, in ticks.
SeriesDuration ==
    trackpoints[Len(trackpoints)].time.iso[1] - trackpoints[1].time.iso[1]

\* C5: for every non-empty sliced series the resampler produces exactly
\* max(1, round(duration * fps)) frames, and never zero frames.
C5_FrameCountIsRoundedDuration ==
    rpc = "resampled" =>
        /\ Len(interpolated_data) = MaxOf(1, round_half_even(MaxOf(0, SeriesDuration) * VIDEO_FPS,
                                                     TicksPerSecond))
        /\ Len(interpolated_data) >= 1

FracIsInt(f, v) == f.num = v * f.den

\* C6 as claimed: for every non-empty sliced series and every frame count, frame
\* 0 carries the first sample's power and the last frame the last sample's power.
C6_EndFramesCarryEndSamples ==
    rpc = "resampled" =>
        /\ Len(interpolated_data) >= 1
        /\ FracIsInt(interpolated_data[1].power, trackpoints[1].power)
        /\ FracIsInt(interpolated_data[Len(interpolated_data)].power,
                     trackpoints[Len(trackpoints)].power)

\* C6 amended: whenever at least one frame is produced, frame 0 carries the first
\* sample's power; whenever at least two frames are produced, the last frame
\* carries the last sample's power.
C6_EndFramesCarryEndSamplesFromTwoFrames ==
    rpc = "resampled" =>
        /\ Len(interpolated_data) >= 1 =>
              FracIsInt(interpolated_data[1].power, trackpoints[1].power)
        /\ Len(interpolated_data) >= 2 =>
              FracIsInt(interpolated_data[Len(interpolated_data)].power,
                        trackpoints[Len(trackpoints)].power)

\* C6 witness: three samples with differing first, middle and last power were
\* resampled to at least three frames, an inner frame falling between samples.
C6_Witness ==
    /\ rpc = "resampled"
    /\ Len(trackpoints) = 3
    /\ trackpoints[1].power # trackpoints[3].power
    /\ trackpoints[2].power # trackpoints[3].power
    /\ Len(interpolated_data) >= 3
    /\ \E j \in 1..Len(interpolated_data) :
          interpolated_data[j].power.num % interpolated_data[j].power.den # 0

\* ------------------------------------------------- slicing scenario (SpecSlice)
SlicePoint == [time : {UtcTime(t) : t \in 0..MaxSliceTick}, power : {0, 1}]

\* A window endpoint at a given instant, as it arrives in one of three zones.
Endpoint(instant, zone) ==
    CASE zone = "naive" -> DateTime(instant + LocalUtcOffset, FALSE, 0)
      [] zone = "utc"   -> DateTime(instant, TRUE, 0)
      [] zone = "other" -> DateTime(instant + OtherUtcOffset, TRUE, OtherUtcOffset)

Zones == {"naive", "utc", "other"}

InitSlice ==
    /\ tcx_data \in SeqsUpTo(SlicePoint, MaxSlicePoints)
    /\ \E zone \in Zones, a, b \in (0 - 1)..(MaxSliceTick + 1) :
          /\ start_time = Endpoint(a, zone)
          /\ end_time = Endpoint(b, zone)
    /\ sliceRes = None
    /\ resliceRes = None
    /\ spc = "slice"
    /\ ParseIdle
    /\ ResIdle
    /\ PipeIdle
    /\ ConcIdle

\* First call of the slicer on the parsed series.
Slice ==
    /\ spc = "slice"
    /\ sliceRes' = slice_data_and_save_json(tcx_data, start_time, end_time)
    /\ spc' = "reslice"
    /\ UNCHANGED <<tcx_data, start_time, end_time, resliceRes>>
    /\ UNCHANGED parseVars
    /\ UNCHANGED resVars
    /\ UNCHANGED <<pipeVars, concVars>>

\* The slicer applied, with the same window, to what the first call produced.
Reslice ==
    /\ spc = "reslice"
    /\ sliceRes.ok
    /\ resliceRes' = slice_data_and_save_json(sliceRes.data, start_time, end_time)
    /\ spc' = "done"
    /\ UNCHANGED <<tcx_data, start_time, end_time, sliceRes>>
    /\ UNCHANGED parseVars
    /\ UNCHANGED resVars
    /\ UNCHANGED <<pipeVars, concVars>>

NextSlice == Slice \/ Reslice

SpecSlice == InitSlice /\ [][NextSlice]_vars

\* -------------------------------------------------------- claims on slicing
\* The absolute instant a window endpoint denotes: an aware value by its own
\* offset, a naive value in the machine's local zone.
WindowInstant(dt) == IF dt.aware THEN dt.wall - dt.off ELSE dt.wall - LocalUtcOffset

\* The input points lying in the closed window, in input order.
PointsInWindow ==
    LET Inside(tp) == /\ WindowInstant(start_time) <= Instant(tp.time)
                      /\ Instant(tp.time) <= WindowInstant(end_time)
    IN SelectSeq(tcx_data, Inside)

\* C7: for every series and window the slicer succeeds and its output is exactly
\* the input points with start <= time <= end (both inclusive), in input order,
\* none duplicated or omitted; each output point is the input point with its
\* time rendered as ISO text.
C7_SliceIsClosedWindowSubsequence ==
    spc # "slice" =>
        /\ sliceRes.ok
        /\ Len(sliceRes.data) = Len(PointsInWindow)
        /\ \A j \in 1..Len(PointsInWindow) :
              /\ IsStr(sliceRes.data[j].time)
              /\ fromisoformat(sliceRes.data[j].time) = PointsInWindow[j].time
              /\ sliceRes.data[j].power = PointsInWindow[j].power

\* C7 witness: a naive window cut a 3-point series down to 2 points, one point
\* sitting exactly on the start bound and one exactly on the end bound.
C7_Witness ==
    /\ spc # "slice"
    /\ ~start_time.aware
    /\ Len(tcx_data) = 3
    /\ sliceRes.ok
    /\ Len(sliceRes.data) = 2
    /\ sliceRes.data[1].power # sliceRes.data[2].power
    /\ \E i \in 1..3 : Instant(tcx_data[i].time) = WindowInstant(start_time)
    /\ \E i \in 1..3 : Instant(tcx_data[i].time) = WindowInstant(end_time)
    /\ WindowInstant(start_time) < WindowInstant(end_time)

\* C8: slicing is idempotent: the slicer applied with the same window to the
\* output of a first slicing succeeds and yields the identical sequence.
C8_SliceIdempotent ==
    spc = "done" =>
        /\ resliceRes.ok
        /\ resliceRes.data = sliceRes.data

\* ------------------------------------ create_gauge_video: frame loop (part 4)
\* power_val = int(interpolated_data['power'][i]) (and likewise hr_val): int()
\* truncates; the interpolated values here are never negative.
int_of(f) == f.num \div f.den

power_val(frame) == int_of(frame.power)
hr_val(frame) == int_of(frame.hr)

\* cache_key = f"{power_val}-{hr_val}"
cache_key(frame) == ToString(power_val(frame)) \o "-" \o ToString(hr_val(frame))

\* f"{w_per_kg_val:.1f} W/kg": the value rounded to tenths.
wkg_text_str(frame) ==
    LET tenths == round_half_even(10 * frame.w_per_kg.num, frame.w_per_kg.den)
    IN ToString(tenths \div 10) \o "." \o ToString(tenths % 10) \o " W/kg"

power_text_str(frame) == ToString(power_val(frame)) \o "W"
hr_text_str(frame) == ToString(hr_val(frame)) \o " bpm"

\* The static raster rendered from scratch for a frame (no heart icon yet).
BaseRaster(frame) ==
    [power_text |-> power_text_str(frame),
     wkg_text   |-> wkg_text_str(frame),
     hr_text    |-> hr_text_str(frame),
     heart      |-> <<>>]

\* overlay_image_alpha of the beating heart onto a buffer, in place: the heart
\* (its scale depends on hr_val and on i / VIDEO_FPS) is blended over whatever
\* the buffer already shows.
WithHeart(frame_cv, frame, idx) ==
    [frame_cv EXCEPT !.heart = Append(@, [hr |-> hr_val(frame), index |-> idx])]

\* The text images a from-scratch render puts into text_cache, hr text left out.
rendered_texts_without_hr(frame) == {power_text_str(frame), wkg_text_str(frame)}

\* The text images a from-scratch render puts into text_cache.
rendered_texts(frame) ==
    {power_text_str(frame), wkg_text_str(frame), hr_text_str(frame)}

\* A cache entry sharing its buffer with the frame being drawn: the in-place
\* overlay shows through.
cached_after_overlay_aliased(cached, overlaid) == overlaid

\* What the cache holds for a key after the frame's buffer got its overlay: the
\* entry and the frame's buffer are separate copies (.copy() at store and at
\* lookup), so the entry is what it was.
cached_after_overlay(cached, overlaid) == cached

\* A cache that forgets to keep the rendered raster.
StoreBaseFrameDropped(cache, key, raster) == cache

\* base_frame_cache[cache_key] = frame_cv.copy()
StoreBaseFrame(cache, key, raster) ==
    [k \in DOMAIN cache \cup {key} |-> IF k = key THEN raster ELSE cache[k]]

\* A loop that stops one frame early.
LoopContinuesShort(idx, total) == idx + 1 < total

\* for i in range(total_frames)
LoopContinues(idx, total) == idx < total

\* The progress report is due after frame i: (i + 1) % (VIDEO_FPS * 2) == 0.
ProgressDue(idx) == (idx + 1) % (VIDEO_FPS * 2) = 0

\* percentage = int(((i + 1) / total_frames) * 100)
percentage(idx, total) == ((idx + 1) * 100) \div total

\* ------------------------------------------------ orchestrate_video_generation
\* The renderer's percentage handed to the caller as it is.
scaled_progress_unscaled(p) == p

\* scaled_progress = 20 + int((p / 100) * 75)
scaled_progress(p) == 20 + (p * 75) \div 100

\* A cleanup that runs only when the try block ended without an exception.
cleanup_on_success(file, pending) == IF pending = None THEN None ELSE file

\* finally: if os.path.exists(temp_json_path): os.remove(temp_json_path)
cleanup(file, pending) == None

\* The try block is left with exception e: control goes to the finally clause.
Raise(e) == exc' = [error |-> e] /\ pc' = "o_finally"

\* ------------------------------------------------- generation scenario (Spec)
PipeTimes == {0, 2, 10, 200}
PipeMetrics == {<<3, 60>>, <<4, 61>>}
MaxPipePoints == 3

PipePoint(t, pm) ==
    [time |-> UtcTime(t), power |-> pm[1], hr |-> pm[2]]

IsTimeOrdered(tps) ==
    \A q \in 1..(Len(tps) - 1) : Instant(tps[q].time) <= Instant(tps[q + 1].time)

Init ==
    /\ tcx_data \in {tps \in SeqsUpTo({PipePoint(t, pm) : t \in PipeTimes, pm \in PipeMetrics},
                                      MaxPipePoints) :
                        tps # <<>> /\ IsTimeOrdered(tps)}
    /\ \E zone \in {"naive", "utc"}, a \in {0, 5}, b \in {0, 10, 200} :
          /\ start_time = Endpoint(a, zone)
          /\ end_time = Endpoint(b, zone)
    /\ sliceRes = None
    /\ resliceRes = None
    /\ spc = "idle"
    /\ ParseIdle
    /\ ResIdle
    /\ pc = IF start_time.aware THEN "web_generate" ELSE "ui_generate_btn"
    /\ exc = None
    /\ result = "requested"
    /\ tempFile = None
    /\ progress = <<>>
    /\ sink = "none"
    /\ written = <<>>
    /\ frame_i = 0
    /\ total_frames = 0
    /\ text_cache = {}
    /\ base_frame_cache = <<>>
    /\ rendered = <<>>
    /\ ConcIdle

inputVars == <<tcx_data, start_time, end_time, sliceRes, resliceRes, spc>>
cacheVars == <<text_cache, base_frame_cache, rendered>>

\* MainWindow.update_ui_state: the Generate button is enabled only with a file
\* loaded and segment_start < segment_end (two naive QDateTime values).
is_valid(segment_start, segment_end) ==
    /\ tcx_data # <<>>
    /\ segment_start.wall < segment_end.wall

\* Desktop UI: the user presses Generate.  MainWindow.start_generation runs only
\* while update_ui_state has the button enabled; it hands the two naive
\* datetimes to GenerationWorker.run, which calls the orchestrator.
start_generation ==
    /\ pc = "ui_generate_btn"
    /\ is_valid(start_time, end_time)
    /\ pc' = "o_progress_10"
    /\ result' = "running"
    /\ UNCHANGED <<exc, tempFile, progress, sink, written, frame_i, total_frames>>
    /\ UNCHANGED <<concVars, inputVars, parseVars, resVars, cacheVars>>

\* Desktop UI: update_ui_state found the window invalid and disabled the
\* button; the request goes nowhere.
GenerateDisabled ==
    /\ pc = "ui_generate_btn"
    /\ ~is_valid(start_time, end_time)
    /\ pc' = "rejected"
    /\ result' = "rejected"
    /\ UNCHANGED <<exc, tempFile, progress, sink, written, frame_i, total_frames>>
    /\ UNCHANGED <<concVars, inputVars, parseVars, resVars, cacheVars>>

\* Web: POST /generate checks only that tcx_path, startTime and endTime are
\* present, then generation_task parses the two ISO strings and calls the
\* orchestrator.
generation_task ==
    /\ pc = "web_generate"
    /\ pc' = "o_progress_10"
    /\ result' = "running"
    /\ UNCHANGED <<exc, tempFile, progress, sink, written, frame_i, total_frames>>
    /\ UNCHANGED <<concVars, inputVars, parseVars, resVars, cacheVars>>

\* progress_callback(10, "Slicing TCX data..."); the caller's callback may raise.
Progress10 ==
    /\ pc = "o_progress_10"
    /\ progress' = Append(progress, 10)
    /\ \E raises \in BOOLEAN :
          IF raises THEN Raise("CallbackError")
          ELSE pc' = "o_slice" /\ exc' = exc
    /\ UNCHANGED <<result, tempFile, sink, written, frame_i, total_frames>>
    /\ UNCHANGED <<concVars, inputVars, parseVars, resVars, cacheVars>>

\* slice_data_and_save_json(tcx_data, start_time, end_time, temp_json_path)
\* completing: the file holds the JSON of the sliced list.
SliceAndSave ==
    /\ pc = "o_slice"
    /\ LET res == slice_data_and_save_json(tcx_data, start_time, end_time)
       IN IF res.ok
          THEN tempFile' = [json |-> res.data] /\ pc' = "o_progress_20" /\ exc' = exc
          ELSE tempFile' = tempFile /\ Raise(res.error)
    /\ UNCHANGED <<result, progress, sink, written, frame_i, total_frames>>
    /\ UNCHANGED <<concVars, inputVars, parseVars, resVars, cacheVars>>

\* The slicer failing on the file: open() raising (no file), or json.dump
\* raising after open() created it (a truncated file is left behind).
SliceSaveFails ==
    /\ pc = "o_slice"
    /\ \E created \in BOOLEAN :
          tempFile' = IF created THEN [json |-> <<>>] ELSE tempFile
    /\ Raise("OSError")
    /\ UNCHANGED <<result, progress, sink, written, frame_i, total_frames>>
    /\ UNCHANGED <<concVars, inputVars, parseVars, resVars, cacheVars>>

\* progress_callback(20, "Generating gauge video frames...")
Progress20 ==
    /\ pc = "o_progress_20"
    /\ progress' = Append(progress, 20)
    /\ \E raises \in BOOLEAN :
          IF raises THEN Raise("CallbackError")
          ELSE pc' = "g_assets" /\ exc' = exc
    /\ UNCHANGED <<result, tempFile, sink, written, frame_i, total_frames>>
    /\ UNCHANGED <<concVars, inputVars, parseVars, resVars, cacheVars>>

\* Asset loading placed after the construction of the video writer: a missing
\* file is noticed with the sink already open.
LoadAssetsAfterSinkOpen ==
    /\ pc = "g_assets"
    /\ \E missing \in BOOLEAN :
          IF missing
          THEN sink' = "open" /\ Raise("RuntimeError: Asset file not found")
          ELSE pc' = "g_load" /\ exc' = exc /\ sink' = sink
    /\ UNCHANGED <<result, tempFile, progress, written, frame_i, total_frames>>
    /\ UNCHANGED <<concVars, inputVars, parseVars, resVars, cacheVars>>

\* create_gauge_video part 2: fonts and icons load, or a file is missing.
LoadAssets ==
    /\ pc = "g_assets"
    /\ \E missing \in BOOLEAN :
          IF missing THEN Raise("RuntimeError: Asset file not found")
          ELSE pc' = "g_load" /\ exc' = exc
    /\ UNCHANGED <<result, tempFile, progress, sink, written, frame_i, total_frames>>
    /\ UNCHANGED <<concVars, inputVars, parseVars, resVars, cacheVars>>

\* create_gauge_video part 3: json.load, the empty check, the interpolation.
LoadAndInterpolate ==
    /\ pc = "g_load"
    /\ IF tempFile = None
       THEN Raise("FileNotFoundError") /\ UNCHANGED <<trackpoints, interpolated_data>>
       ELSE IF tempFile.json = <<>>
            THEN /\ trackpoints' = tempFile.json
                 /\ Raise("ValueError: Input JSON file is empty.")
                 /\ UNCHANGED interpolated_data
            ELSE /\ trackpoints' = tempFile.json
                 /\ interpolated_data' = Interpolate(tempFile.json)
                 /\ pc' = "g_open"
                 /\ exc' = exc
    /\ UNCHANGED <<result, tempFile, progress, sink, written, frame_i, total_frames>>
    /\ UNCHANGED <<concVars, inputVars, parseVars, rpc, cacheVars>>

\* cv2.VideoWriter(...) and the isOpened() check; on success total_frames and
\* the two empty caches are set up.
OpenSink ==
    /\ pc = "g_open"
    /\ \E opened \in BOOLEAN :
          IF opened
          THEN /\ sink' = "open"
               /\ total_frames' = Len(interpolated_data)
               /\ pc' = "g_frame"
               /\ exc' = exc
          ELSE /\ Raise("IOError: Could not open video writer.")
               /\ UNCHANGED <<sink, total_frames>>
    /\ UNCHANGED <<result, tempFile, progress, written, frame_i>>
    /\ UNCHANGED <<concVars, inputVars, parseVars, resVars, cacheVars>>

\* One iteration of the frame loop up to out.write(frame_cv).
RenderAndWriteFrame ==
    /\ pc = "g_frame"
    /\ LoopContinues(frame_i, total_frames)
    /\ LET frame == interpolated_data[frame_i + 1]
           key == cache_key(frame)
           hit == key \in DOMAIN base_frame_cache
       IN IF hit /\ hr_text_str(frame) \notin text_cache
          THEN /\ Raise("KeyError")
               /\ UNCHANGED <<written, frame_i, cacheVars>>
          ELSE LET frame_cv == IF hit THEN base_frame_cache[key] ELSE BaseRaster(frame)
                   stored == IF hit THEN base_frame_cache
                             ELSE StoreBaseFrame(base_frame_cache, key, frame_cv)
                   overlaid == WithHeart(frame_cv, frame, frame_i)
               IN /\ text_cache' = IF hit THEN text_cache
                                   ELSE text_cache \cup rendered_texts(frame)
                  /\ base_frame_cache' =
                        [k \in DOMAIN stored |->
                            IF k = key THEN cached_after_overlay(stored[k], overlaid)
                            ELSE stored[k]]
                  /\ rendered' = IF hit THEN rendered ELSE Append(rendered, key)
                  /\ written' = Append(written, [index |-> frame_i, image |-> overlaid])
                  /\ frame_i' = frame_i + 1
                  /\ pc' = IF ProgressDue(frame_i) THEN "g_progress" ELSE "g_frame"
                  /\ exc' = exc
    /\ UNCHANGED <<result, tempFile, progress, sink, total_frames>>
    /\ UNCHANGED <<concVars, inputVars, parseVars, resVars>>

\* An exception raised while a frame is being rendered or written (before
\* out.write returned), either before or after the base raster was cached.
FrameRaises ==
    /\ pc = "g_frame"
    /\ LoopContinues(frame_i, total_frames)
    /\ LET frame == interpolated_data[frame_i + 1]
           key == cache_key(frame)
           hit == key \in DOMAIN base_frame_cache
       IN \E cached \in BOOLEAN :
             IF cached /\ ~hit
             THEN /\ text_cache' = text_cache \cup rendered_texts(frame)
                  /\ base_frame_cache' = StoreBaseFrame(base_frame_cache, key, BaseRaster(frame))
                  /\ rendered' = Append(rendered, key)
             ELSE UNCHANGED cacheVars
    /\ Raise("RenderError")
    /\ UNCHANGED <<result, tempFile, progress, sink, written, frame_i, total_frames>>
    /\ UNCHANGED <<concVars, inputVars, parseVars, resVars>>

\* The periodic report through video_progress_adapter to the caller's callback.
FrameProgress ==
    /\ pc = "g_progress"
    /\ progress' = Append(progress, scaled_progress(percentage(frame_i - 1, total_frames)))
    /\ \E raises \in BOOLEAN :
          IF raises THEN Raise("CallbackError")
          ELSE pc' = "g_frame" /\ exc' = exc
    /\ UNCHANGED <<result, tempFile, sink, written, frame_i, total_frames>>
    /\ UNCHANGED <<concVars, inputVars, parseVars, resVars, cacheVars>>

\* The loop is exhausted: out.release()
ReleaseSink ==
    /\ pc = "g_frame"
    /\ ~LoopContinues(frame_i, total_frames)
    /\ sink' = "released"
    /\ pc' = "o_progress_100"
    /\ UNCHANGED <<exc, result, tempFile, progress, written, frame_i, total_frames>>
    /\ UNCHANGED <<concVars, inputVars, parseVars, resVars, cacheVars>>

\* progress_callback(100, "Video generation complete.") and return output_path
Progress100 ==
    /\ pc = "o_progress_100"
    /\ progress' = Append(progress, 100)
    /\ \E raises \in BOOLEAN :
          IF raises THEN Raise("CallbackError")
          ELSE pc' = "o_finally" /\ exc' = exc
    /\ UNCHANGED <<result, tempFile, sink, written, frame_i, total_frames>>
    /\ UNCHANGED <<concVars, inputVars, parseVars, resVars, cacheVars>>

\* The finally clause, then the call returns or the exception propagates.
Finally ==
    /\ pc = "o_finally"
    /\ tempFile' = cleanup(tempFile, exc)
    /\ result' = IF exc = None THEN "returned" ELSE "raised"
    /\ pc' = "done"
    /\ UNCHANGED <<exc, progress, sink, written, frame_i, total_frames>>
    /\ UNCHANGED <<concVars, inputVars, parseVars, resVars, cacheVars>>

Next ==
    \/ start_generation
    \/ GenerateDisabled
    \/ generation_task
    \/ Progress10
    \/ SliceAndSave
    \/ SliceSaveFails
    \/ Progress20
    \/ LoadAssets
    \/ LoadAndInterpolate
    \/ OpenSink
    \/ RenderAndWriteFrame
    \/ FrameRaises
    \/ FrameProgress
    \/ ReleaseSink
    \/ Progress100
    \/ Finally

Spec == Init /\ [][Next]_vars

\* ------------------------------------- generation scenario, long runs (SpecLongRun)
\* The same program on slices of a few seconds: runs of up to 210 frames, which
\* report periodic progress several times.
LongRunTimes == {120, 400, 700}

InitLongRun ==
    /\ \E t \in LongRunTimes :
          tcx_data = <<PipePoint(0, <<3, 60>>), PipePoint(t, <<4, 61>>)>>
    /\ \E zone \in {"naive", "utc"}, a \in {0, 5}, b \in {0, 700} :
          /\ start_time = Endpoint(a, zone)
          /\ end_time = Endpoint(b, zone)
    /\ sliceRes = None
    /\ resliceRes = None
    /\ spc = "idle"
    /\ ParseIdle
    /\ ResIdle
    /\ pc = IF start_time.aware THEN "web_generate" ELSE "ui_generate_btn"
    /\ exc = None
    /\ result = "requested"
    /\ tempFile = None
    /\ progress = <<>>
    /\ sink = "none"
    /\ written = <<>>
    /\ frame_i = 0
    /\ total_frames = 0
    /\ text_cache = {}
    /\ base_frame_cache = <<>>
    /\ rendered = <<>>
    /\ ConcIdle

SpecLongRun == InitLongRun /\ [][Next]_vars

\* ------------------------------------------------- claims on the generation run
\* C1: on every exit path of orchestrate_video_generation (return or exception)
\* the transient sliced-data file no longer exists when the call ends.
C1_TempFileGoneOnExit ==
    pc = "done" => tempFile = None

\* C1 witness: the call ended by an exception raised while rendering, after the
\* sliced-data file had been created and frames had been written.
C1_Witness ==
    /\ pc = "done"
    /\ result = "raised"
    /\ exc # None
    /\ exc.error = "RenderError"
    /\ Len(written) > 0
    /\ tempFile = None

\* C2: once the sink has been opened, an exception raised while rendering or
\* writing a frame (or by the progress callback) leaves the sink released before
\* it propagates: no terminated run has the sink still open.
C2_SinkReleasedOnExit ==
    pc = "done" => sink # "open"

\* C3: when no trackpoint falls inside the requested window, the run aborts with
\* an error before resampling; the sink is never opened, no frame is written and
\* 100% is never reported.
C3_EmptySliceIsFatal ==
    PointsInWindow = <<>> =>
        /\ interpolated_data = <<>>
        /\ sink = "none"
        /\ written = <<>>
        /\ \A q \in 1..Len(progress) : progress[q] # 100
        /\ pc = "done" => result = "raised"

\* C3 witness: a run over a window holding no point ended with the empty-list
\* ValueError of create_gauge_video.
C3_Witness ==
    /\ pc = "done"
    /\ PointsInWindow = <<>>
    /\ exc # None
    /\ exc.error = "ValueError: Input JSON file is empty."
    /\ WindowInstant(start_time) < WindowInstant(end_time)

\* C4: in a run that completes successfully the frames written are exactly the
\* frames 0, 1, ..., frameCount-1, each once and in increasing order, and every
\* write happens while the sink is open (after it was opened, before release).
C4_FramesWrittenInOrder ==
    /\ [](result = "returned" =>
             /\ sink = "released"
             /\ Len(written) = Len(interpolated_data)
             /\ \A j \in 1..Len(written) : written[j].index = j - 1)
    /\ [][written' # written =>
             /\ sink = "open" /\ sink' = "open"
             /\ Len(written') = Len(written) + 1
             /\ SubSeq(written', 1, Len(written)) = written]_vars
    /\ [][sink = "released" => sink' = "released" /\ written' = written]_vars

\* C4 witness: a successful run that wrote at least 60 frames.
C4_Witness ==
    /\ result = "returned"
    /\ Len(written) >= 60

\* The cache keys of the frames whose loop iteration has completed.
ProcessedKeys == {cache_key(interpolated_data[j]) : j \in 1..frame_i}

\* The run's frames alternate between exactly two keys.
AlternatesTwoKeys ==
    /\ Len(interpolated_data) >= 2
    /\ cache_key(interpolated_data[1]) # cache_key(interpolated_data[2])
    /\ \A j \in 1..(Len(interpolated_data) - 2) :
          cache_key(interpolated_data[j]) = cache_key(interpolated_data[j + 2])

\* C10: after any prefix of the frame loop the base-frame cache holds exactly one
\* entry per distinct quantized key among the frames processed so far, no key's
\* base raster is rendered from scratch more than once, and a completed run whose
\* frames alternate between exactly two keys ends with exactly 2 entries.
C10_CacheHoldsProcessedKeys ==
    /\ (exc = None \/ exc.error # "RenderError") =>
           DOMAIN base_frame_cache = ProcessedKeys
    /\ \A a, b \in 1..Len(rendered) : rendered[a] = rendered[b] => a = b
    /\ (result = "returned" /\ AlternatesTwoKeys) =>
           Cardinality(DOMAIN base_frame_cache) = 2

\* C10 witness: a completed run of at least three frames alternating between two
\* keys, the third frame served from the cache.
C10_Witness ==
    /\ result = "returned"
    /\ Len(written) >= 3
    /\ AlternatesTwoKeys
    /\ Len(rendered) = 2
    /\ Cardinality(DOMAIN base_frame_cache) = 2

\* The key of a written frame, and the buffer it started from (its image with
\* the frame's own heart overlay taken off again).
WrittenKey(w) == cache_key(interpolated_data[w.index + 1])
BeforeAnimation(w) ==
    [w.image EXCEPT !.heart = SubSeq(@, 1, Len(@) - 1)]

\* C11: within one run any two frames with the same quantized key start from
\* identical base rasters before the heart animation, and a raster stored in the
\* cache is never altered by a heart overlay or a later frame's drawing: a
\* cached raster never changes once stored and carries no heart, and every
\* frame, when written, started from exactly the raster cached under its key.
C11_SameKeySameBaseRaster ==
    /\ [](\A k \in DOMAIN base_frame_cache : base_frame_cache[k].heart = <<>>)
    /\ [](written # <<>> =>
            LET last == written[Len(written)]
            IN /\ WrittenKey(last) \in DOMAIN base_frame_cache
               /\ BeforeAnimation(last) = base_frame_cache[WrittenKey(last)])
    /\ [][\A k \in DOMAIN base_frame_cache :
             /\ k \in DOMAIN base_frame_cache'
             /\ base_frame_cache'[k] = base_frame_cache[k]]_vars

\* C11 witness: two frames with the same key were written, the later one served
\* from the cache, each with its own heart overlay.
C11_Witness ==
    \E a, b \in 1..Len(written) :
        /\ a < b
        /\ WrittenKey(written[a]) = WrittenKey(written[b])
        /\ written[a].image.heart # written[b].image.heart
        /\ Len(rendered) < Len(written)

\* The run was aborted by a missing font or icon file.
AssetMissing == exc # None /\ exc.error = "RuntimeError: Asset file not found"

\* C12: when a font or icon asset cannot be loaded, create_gauge_video aborts
\* before the sink is opened and before any frame is rendered or written: the
\* run leaves no partial video.
C12_AssetFailureBeforeSink ==
    AssetMissing =>
        /\ sink = "none"
        /\ written = <<>>
        /\ rendered = <<>>
        /\ base_frame_cache = <<>>
        /\ frame_i = 0
        /\ pc = "done" => result = "raised"

\* C12 witness: a run whose slice held data points ended on the asset error.
C12_Witness ==
    /\ AssetMissing
    /\ pc = "done"
    /\ PointsInWindow # <<>>
    /\ progress = <<10, 20>>

\* The requested window is empty or a single instant: start >= end.
DegenerateWindow == WindowInstant(start_time) >= WindowInstant(end_time)

\* C13: a request with start >= end (start = end on a sample's timestamp
\* included) is rejected by the caller before the slicer is invoked, or else the
\* run fails with an error; it never ends as a completed run that wrote a video.
C13_DegenerateWindowNeverCompletes ==
    DegenerateWindow =>
        /\ result # "returned"
        /\ result = "rejected" => tempFile = None /\ progress = <<>>

\* The per-frame values a written frame was drawn for.
WrittenValues(w) == interpolated_data[w.index + 1]

\* Python's round() of an interpolated value.
Nearest(f) == round_half_even(f.num, f.den)

\* C14: the cache key and the displayed integer power and heart rate of every
\* frame are the interpolated values rounded to the nearest integer, not
\* truncated (149.6 is keyed and shown as 150).
C14_KeyRoundsToNearest ==
    \A a \in 1..Len(written) :
        LET frame == WrittenValues(written[a])
        IN /\ WrittenKey(written[a]) =
                 ToString(Nearest(frame.power)) \o "-" \o ToString(Nearest(frame.hr))
           /\ written[a].image.power_text = ToString(Nearest(frame.power)) \o "W"
           /\ written[a].image.hr_text = ToString(Nearest(frame.hr)) \o " bpm"

\* C16: every written frame shows the watts-per-kilogram text of its own value
\* (one decimal): on a cache hit the string baked into the cached raster equals
\* the string the current frame's value formats to.
C16_FrameShowsOwnWkg ==
    \A a \in 1..Len(written) :
        written[a].image.wkg_text = wkg_text_str(WrittenValues(written[a]))

\* The reports of one run are integers in 0..100, never decrease, and 100 comes
\* last and only with the sink released.
ProgressWellFormed ==
    /\ \A k \in 1..Len(progress) : progress[k] \in 0..100
    /\ \A k \in 1..(Len(progress) - 1) : progress[k] <= progress[k + 1]
    /\ \A k \in 1..Len(progress) :
          progress[k] = 100 => k = Len(progress) /\ sink = "released"

\* C15 as stated: the percentages delivered to the caller's callback during one
\* orchestrate_video_generation run are integers in 0..100, non-decreasing, and
\* contain 100 only as the final element, reported after the sink has been
\* closed and only in a run that succeeds.
C15_ProgressEndsAt100OnSuccessOnly ==
    /\ ProgressWellFormed
    /\ (pc = "done" /\ progress # <<>> /\ progress[Len(progress)] = 100)
          => result = "returned"

\* C15 amended: the percentages are integers in 0..100, non-decreasing, and
\* contain 100 only as the final element, reported after every frame was written
\* and the sink closed; the run then returns, unless the callback itself raised
\* while receiving that final report.
C15_ProgressEndsAt100AfterGeneration ==
    /\ ProgressWellFormed
    /\ (progress # <<>> /\ progress[Len(progress)] = 100) =>
          /\ Len(written) = total_frames
          /\ exc = None \/ exc.error = "CallbackError"
          /\ pc = "done" => (result = "returned" <=> exc = None)

\* C15 witness: a run that reported periodic progress more than once returned
\* after its final report of 100.
C15_Witness ==
    /\ pc = "done"
    /\ result = "returned"
    /\ Len(progress) >= 5
    /\ progress[Len(progress)] = 100
    /\ progress[3] < progress[4]

\* C17: in every state of the frame loop, for every key (power, hr) present in
\* the base-frame cache the text cache holds the heart-rate text "<hr> bpm" of
\* that key, so the text-cache lookup on the hit path never fails: each cached
\* raster's heart-rate text is in the text cache, the frame about to be drawn
\* finds its text whenever it finds its key, and no run ends on a KeyError.
C17_HrTextCachedForEveryKey ==
    /\ \A k \in DOMAIN base_frame_cache : base_frame_cache[k].hr_text \in text_cache
    /\ (pc = "g_frame" /\ LoopContinues(frame_i, total_frames)) =>
          LET frame == interpolated_data[frame_i + 1]
          IN cache_key(frame) \in DOMAIN base_frame_cache =>
                /\ hr_text_str(frame) \in text_cache
                /\ base_frame_cache[cache_key(frame)].hr_text = hr_text_str(frame)
    /\ ~(exc # None /\ exc.error = "KeyError")

\* C17 witness: a frame was served from the cache (the hit path looked its
\* heart-rate text up) while the cache held two keys.
C17_Witness ==
    /\ Len(rendered) = 2
    /\ Len(written) > Len(rendered)
    /\ WrittenKey(written[Len(written)]) = rendered[1]
    /\ exc = None

\* --------------------------------------- concurrent runs (SpecConcurrent)
\* Two generation runs on separate workers of one process: two web jobs
\* (generate_video starts a thread per request, output name "<uuid>.mp4" in the
\* output folder) or two desktop runs (start_generation creates a new QThread for
\* every press of Generate, output path chosen in a file dialog).  A path is its
\* sequence of components.
Runs == {1, 2}

OutputPaths == {<<"videos", "ride.mp4">>, <<"videos", "climb.mp4">>,
                <<"backup", "ride.mp4">>}

\* os.path.basename
basename(path) == path[Len(path)]

\* temp_json_path = f"temp_sliced_data_{os.path.basename(output_path)}.json",
\* a relative path: it lives in the process's working directory.
temp_json_path(output_path) ==
    "temp_sliced_data_" \o basename(output_path) \o ".json"

TempPaths == {temp_json_path(op) : op \in OutputPaths}

PathOf(r) == temp_json_path(runs[r].output_path)

InitConcurrent ==
    /\ \E p1, p2 \in OutputPaths :
          /\ p1 # p2
          /\ runs = [r \in Runs |->
                        [pc          |-> "o_slice",
                         output_path |-> IF r = 1 THEN p1 ELSE p2,
                         loaded      |-> None,
                         removed     |-> None,
                         exc         |-> None]]
    /\ fs = [path \in TempPaths |-> None]
    /\ SliceIdle
    /\ ParseIdle
    /\ ResIdle
    /\ PipeIdle

ConcUnchanged == UNCHANGED <<sliceVars, parseVars, resVars, pipeVars>>

\* Run r: slice_data_and_save_json writes the run's slice to temp_json_path
\* (open(..., 'w') creates or truncates whatever is there).
ConcSliceAndSave(r) ==
    /\ runs[r].pc = "o_slice"
    /\ fs' = [fs EXCEPT ![PathOf(r)] = Some([writer |-> r])]
    /\ runs' = [runs EXCEPT ![r].pc = "g_load"]
    /\ ConcUnchanged

\* Run r: the try block is left before the slice is written (the first
\* progress callback raises): control goes to the finally clause.
ConcFailsBeforeSlice(r) ==
    /\ runs[r].pc = "o_slice"
    /\ runs' = [runs EXCEPT ![r].pc = "o_exists", ![r].exc = Some("CallbackError")]
    /\ UNCHANGED fs
    /\ ConcUnchanged

\* Run r: create_gauge_video opens temp_json_path and json.load reads it; the
\* frames are then rendered from what was read, without touching the file.
ConcLoad(r) ==
    /\ runs[r].pc = "g_load"
    /\ runs' = IF fs[PathOf(r)] = None
               THEN [runs EXCEPT ![r].pc = "o_exists",
                                 ![r].exc = Some("FileNotFoundError")]
               ELSE [runs EXCEPT ![r].pc = "o_exists",
                                 ![r].loaded = Some(fs[PathOf(r)].val.writer)]
    /\ UNCHANGED fs
    /\ ConcUnchanged

\* Run r, finally clause: if os.path.exists(temp_json_path)
ConcExists(r) ==
    /\ runs[r].pc = "o_exists"
    /\ runs' = [runs EXCEPT ![r].pc = IF fs[PathOf(r)] = None THEN "done"
                                      ELSE "o_remove"]
    /\ UNCHANGED fs
    /\ ConcUnchanged

\* Run r, finally clause: os.remove(temp_json_path); the file may be gone since
\* the exists() test.
ConcRemove(r) ==
    /\ runs[r].pc = "o_remove"
    /\ IF fs[PathOf(r)] = None
       THEN /\ runs' = [runs EXCEPT ![r].pc = "done",
                                    ![r].exc = Some("FileNotFoundError")]
            /\ UNCHANGED fs
       ELSE /\ runs' = [runs EXCEPT ![r].pc = "done",
                                    ![r].removed = Some(fs[PathOf(r)].val.writer)]
            /\ fs' = [fs EXCEPT ![PathOf(r)] = None]
    /\ ConcUnchanged

NextConcurrent ==
    \E r \in Runs :
        \/ ConcSliceAndSave(r)
        \/ ConcFailsBeforeSlice(r)
        \/ ConcLoad(r)
        \/ ConcExists(r)
        \/ ConcRemove(r)

SpecConcurrent == InitConcurrent /\ [][NextConcurrent]_vars

\* C18: with two runs executing concurrently, each run's transient sliced-data
\* file is exclusively its own: between its creation and its consumption the
\* file is present and holds the run's own slice, a run reads only what it
\* wrote itself, and a run deletes only its own file -- also when the two
\* output paths share the base file name in different directories.
C18_TempFileExclusive ==
    \A r \in Runs :
        /\ runs[r].pc = "g_load" =>
              /\ fs[PathOf(r)] # None
              /\ fs[PathOf(r)].val.writer = r
        /\ runs[r].loaded # None => runs[r].loaded.val = r
        /\ runs[r].removed # None => runs[r].removed.val = r

====
